---- MODULE Spec2Model ----
(***************************************************************************)
(* Model of the AnimatedSprite state machine of the crate                  *)
(* queued_animated_sprites_macroquad (src/animated_sprite/*.rs).           *)
(*                                                                         *)
(* A time is a whole number of units, and the sums, differences and        *)
(* quotients of the code are rounded as f32 rounds them, to 24 significant *)
(* bits.  Spec, SpecScenario, SpecFifo and SpecLive count in sixtieths of  *)
(* a second: the frame periods of the 6 fps and 12 fps animations of the   *)
(* crate documentation (10 and 5 units) and a 0.1 s tick (6 units) are     *)
(* whole numbers there and nothing is rounded.  SpecF32 counts in units of *)
(* 2^-29 s, in which 0.1f32 and 1.0f32 / 6 are whole numbers and the       *)
(* rounding of the frame timer is the rounding of the code.  f32::MAX, the *)
(* "play forever" duration, is a number larger than every reachable time,  *)
(* and it absorbs what is added to or subtracted from it, as it does in    *)
(* f32.                                                                    *)
(***************************************************************************)
EXTENDS Integers, Sequences, FiniteSets, TLC

\* ------------------------------------------------------------------ bounds

\* Longest animation queue the model builds.
MaxQueue == 2

\* Cap on every accumulated timer (playing time included), in 1/60 s.
MaxTime == 15

\* Cap on the number of enqueue calls recorded in the FIFO history.
MaxLog == 3

\* Cap on the number of calls other than update and add_animation_to_queue.
MaxCalls == 1

\* ------------------------------------------------------- program constants

\* f32::MAX: the duration handed to start_new_animation for the default.
F32_MAX == 2147483646

\* 1.0 / 0 as f32 (the frame period of an animation with fps == 0).
F32_INF == 2147483647

\* ------------------------------------------------------------------ inputs

Keys == {"idle", "attack"}

\* Option::None for a key.
None == "None"

\* Deltas get_frame_time() returns, in 1/60 s.
Deltas == {5, 10}

\* (key, duration) pairs passed to add_animation_to_queue, durations in 1/60 s.
EnqueueInputs == {<<"attack", 5>>, <<"attack", 15>>, <<"idle", 5>>}

\* Durations of the attached effects, in 1/60 s.
EffectDurations == {10}

Min(a, b) == IF a <= b THEN a ELSE b

Max(a, b) == IF a >= b THEN a ELSE b

\* ------------------------------------------------------------- Animation

NoEffect == [target |-> "None", duration |-> 0]

\* Animation::new: frames.max(1) keeps at least one frame per row.
Animation_new(row, frames, fps) ==
    [rows |-> <<row>>, frames_per_row |-> Max(frames, 1), fps |-> Max(fps, 0),
     effect |-> NoEffect]

\* Animation::with_start_effect
with_start_effect(a, duration) ==
    [a EXCEPT !.effect = [target |-> "Start", duration |-> duration]]

\* Animation::with_end_effect
with_end_effect(a, duration) ==
    [a EXCEPT !.effect = [target |-> "End", duration |-> duration]]

\* Animation::empty
Animation_empty == Animation_new(0, 0, 0)

\* Animation::total_frames
total_frames(a) == Len(a.rows) * a.frames_per_row

\* The animations the application registers.
AnimLib ==
    {Animation_new(0, 2, 6), Animation_empty}
    \cup {with_start_effect(Animation_new(1, 2, 12), d) : d \in EffectDurations}
    \cup {with_end_effect(Animation_new(1, 2, 12), d) : d \in EffectDurations}

\* ------------------------------------------------------ f32 arithmetic

\* The spacing of the f32 values around x >= 0: 24 significant bits.
RECURSIVE Ulp(_)
Ulp(x) == IF x < 2^24 THEN 1 ELSE 2 * Ulp(x \div 2)

\* n / d for n >= 0 and d > 0, rounded to a whole number, ties to even.
RoundedQuotient(n, d) ==
    LET q == n \div d
        r == n % d
    IN  IF 2 * r < d THEN q
        ELSE IF 2 * r > d THEN q + 1
        ELSE IF q % 2 = 0 THEN q ELSE q + 1

\* x >= 0 rounded to the nearest f32 value, ties to even.
RoundF32Magnitude(x) == Ulp(x) * RoundedQuotient(x, Ulp(x))

\* x rounded to the nearest f32 value.
RoundF32(x) == IF x >= 0 THEN RoundF32Magnitude(x) ELSE 0 - RoundF32Magnitude(0 - x)

\* a + b in f32: f32::MAX + b rounds back to f32::MAX for every reachable b.
F32Add(a, b) == IF a >= F32_MAX THEN a ELSE RoundF32(a + b)

\* a - b in f32: f32::MAX - b rounds back to f32::MAX for every reachable b.
F32Sub(a, b) == IF a >= F32_MAX THEN a ELSE RoundF32(a - b)

\* a / b in f32, for a > 0 and b > 0.
F32Div(a, b) ==
    LET u == Ulp(a \div b)
    IN  u * RoundedQuotient(a, b * u)

\* 1.0 / fps as f32, in 1/60 s; 1.0 / 0 is +infinity.
FrameDuration(fps) == IF fps = 0 THEN F32_INF ELSE 60 \div fps

\* ------------------------------------------------------------------ state

VARIABLES
    animations,                   \* HashMap<K, Animation>: a function on the registered keys
    default_animation_key,
    animation_queue,              \* VecDeque<(K, duration)>
    current_frame,
    current_animation_loop_time,
    current_animation_time,
    current_queue_time,
    playing_time,
    paused,
    current_animation_key,
    previous_animation_key,       \* Option<K>
    effects_state,                \* InternalEffectsState
    ev,                           \* observation of the last operation
    inst,                         \* observation of the playing instance (see NoInstance)
    calls,                        \* calls made besides update and enqueue
    enq_log,                      \* history of successful enqueues
    played_log,                   \* history of queue entries started
    clock                         \* the time ticked, without rounding (see NoClock)

sprite_vars ==
    <<animations, default_animation_key, animation_queue, current_frame,
      current_animation_loop_time, current_animation_time, current_queue_time,
      playing_time, paused, current_animation_key, previous_animation_key,
      effects_state>>

log_vars == <<enq_log, played_log, clock>>

vars == <<sprite_vars, inst, ev, calls, log_vars>>

\* The sum of the deltas of the updates in units of 1 / ClockRate s (t), and
\* whether each of them was a whole number of units of 2^-9 s, so that no sum
\* of the run was rounded (exact).  Only SpecF32 keeps it.
NoClock == [t |-> 0, exact |-> TRUE]

\* The sprite as one value (the struct AnimatedSprite<K>).
Self ==
    [animations |-> animations,
     default_animation_key |-> default_animation_key,
     animation_queue |-> animation_queue,
     current_frame |-> current_frame,
     current_animation_loop_time |-> current_animation_loop_time,
     current_animation_time |-> current_animation_time,
     current_queue_time |-> current_queue_time,
     playing_time |-> playing_time,
     paused |-> paused,
     current_animation_key |-> current_animation_key,
     previous_animation_key |-> previous_animation_key,
     effects_state |-> effects_state,
     inst |-> inst]

\* The next state of the sprite is s.
Assign(s) ==
    /\ animations' = s.animations
    /\ default_animation_key' = s.default_animation_key
    /\ animation_queue' = s.animation_queue
    /\ current_frame' = s.current_frame
    /\ current_animation_loop_time' = s.current_animation_loop_time
    /\ current_animation_time' = s.current_animation_time
    /\ current_queue_time' = s.current_queue_time
    /\ playing_time' = s.playing_time
    /\ paused' = s.paused
    /\ current_animation_key' = s.current_animation_key
    /\ previous_animation_key' = s.previous_animation_key
    /\ effects_state' = s.effects_state
    /\ inst' = s.inst

\* ------------------------------------------------- InternalEffectsState

\* InternalEffectsState::new
InternalEffectsState_new ==
    [effect_time |-> 0, current_effect_duration |-> 0, effect_start_time |-> 0,
     is_active |-> FALSE, has_played |-> FALSE]

\* InternalEffectsState::reset
effects_reset(es) ==
    [es EXCEPT !.effect_time = 0, !.current_effect_duration = 0,
               !.effect_start_time = 0, !.is_active = FALSE, !.has_played = FALSE]

\* progress as the fraction <<numerator, denominator>> of
\* effect_time / current_effect_duration, without the .min(1.0).
progress_Unclamped(es) ==
    IF es.current_effect_duration > 0
    THEN <<es.effect_time, es.current_effect_duration>>
    ELSE <<1, 1>>

\* InternalEffectsState::progress, as the fraction <<numerator, denominator>>:
\* (effect_time / current_effect_duration).min(1.0) if the duration is
\* positive, else 1.0.  An f32 quotient of a numerator that is not above the
\* denominator is not above 1.0, so the fraction is clamped as the f32 is.
progress(es) ==
    IF es.current_effect_duration > 0
    THEN IF es.effect_time >= es.current_effect_duration
         THEN <<1, 1>>
         ELSE <<es.effect_time, es.current_effect_duration>>
    ELSE <<1, 1>>

\* ------------------------------------------------------- AnimatedSprite

\* Observation of the playing instance (no field of the struct): whether a
\* start-transition began it, the animation_duration that start-transition
\* was given, whether only update has been called since, and how often
\* is_active has been set from false to true since (by the start-transition
\* or by update).
NoInstance == [started |-> FALSE, duration |-> 0, clean |-> FALSE, activations |-> 0]

\* A call other than update is about to act on s.
Touch(s) == [s EXCEPT !.inst.clean = FALSE]

\* AnimatedSprite::new
AnimatedSprite_new(key, animation) ==
    [animations |-> [k \in {key} |-> animation],
     default_animation_key |-> key,
     animation_queue |-> <<>>,
     current_frame |-> 0,
     current_animation_loop_time |-> 0,
     current_animation_time |-> 0,
     current_queue_time |-> 0,
     playing_time |-> 0,
     paused |-> FALSE,
     current_animation_key |-> key,
     previous_animation_key |-> None,
     effects_state |-> InternalEffectsState_new,
     inst |-> NoInstance]

\* animations.contains_key
contains_key(s, key) == key \in DOMAIN s.animations

\* Mutant: the duration of the effect is not capped.
CappedDuration_Uncapped(duration, animation_duration) == duration

\* Mutant: the longer of the two durations.
CappedDuration_Longest(duration, animation_duration) == Max(duration, animation_duration)

\* let capped_duration = duration.min(animation_duration)
CappedDuration(duration, animation_duration) == Min(duration, animation_duration)

\* Mutant: the End effect starts with the animation.
EndEffectStartTime_AtOnce(animation_duration, capped_duration) == 0

\* Mutant: the End effect starts when the animation's duration is over.
EndEffectStartTime_NoSubtract(animation_duration, capped_duration) == animation_duration

\* effect_start_time of an End effect: animation_duration - capped_duration
EndEffectStartTime(animation_duration, capped_duration) ==
    F32Sub(animation_duration, capped_duration)

\* The effect fields start_new_animation sets for the new animation.
StartEffectsState(es, animation, animation_duration) ==
    IF animation.effect.target = "Start" THEN
        [es EXCEPT
            !.current_effect_duration =
                CappedDuration(animation.effect.duration, animation_duration),
            !.is_active = TRUE,
            !.effect_start_time = 0]
    ELSE IF animation.effect.target = "End" THEN
        [es EXCEPT
            !.current_effect_duration =
                CappedDuration(animation.effect.duration, animation_duration),
            !.is_active = FALSE,
            !.effect_start_time =
                EndEffectStartTime(animation_duration,
                    CappedDuration(animation.effect.duration, animation_duration))]
    ELSE
        [es EXCEPT !.is_active = FALSE, !.current_effect_duration = 0,
                   !.effect_start_time = 0]

\* Mutant: the start-transition does not zero the frame timer.
start_new_animation_KeepsLoopTime(s, key, animation_duration) ==
    [s EXCEPT
        !.previous_animation_key = s.current_animation_key,
        !.current_animation_key = key,
        !.current_frame = 0,
        !.current_animation_time = 0,
        !.current_queue_time = 0,
        !.inst = [started |-> TRUE, duration |-> animation_duration, clean |-> TRUE,
                  activations |->
                      IF contains_key(s, key) /\ s.animations[key].effect.target = "Start"
                      THEN 1 ELSE 0],
        !.effects_state =
            IF contains_key(s, key)
            THEN StartEffectsState(effects_reset(s.effects_state), s.animations[key],
                                   animation_duration)
            ELSE effects_reset(s.effects_state)]

\* AnimatedSprite::start_new_animation
start_new_animation(s, key, animation_duration) ==
    [s EXCEPT
        !.previous_animation_key = s.current_animation_key,
        !.current_animation_key = key,
        !.current_frame = 0,
        !.current_animation_loop_time = 0,
        !.current_animation_time = 0,
        !.current_queue_time = 0,
        !.inst = [started |-> TRUE, duration |-> animation_duration, clean |-> TRUE,
                  activations |->
                      IF contains_key(s, key) /\ s.animations[key].effect.target = "Start"
                      THEN 1 ELSE 0],
        !.effects_state =
            IF contains_key(s, key)
            THEN StartEffectsState(effects_reset(s.effects_state), s.animations[key],
                                   animation_duration)
            ELSE effects_reset(s.effects_state)]

\* Mutant: the entry is put at the front.
push_back_AtFront(q, e) == <<e>> \o q

\* VecDeque::push_back
push_back(q, e) == Append(q, e)

\* VecDeque::pop_front (nothing happens on an empty queue)
pop_front(q) == IF q = <<>> THEN q ELSE Tail(q)

\* VecDeque::front
front(q) == IF q = <<>> THEN None ELSE Head(q)

\* Mutant: the new default starts even while a queued animation plays.
set_default_animation_AlwaysStart(s, key) ==
    IF contains_key(s, key)
    THEN start_new_animation([s EXCEPT !.default_animation_key = key], key, F32_MAX)
    ELSE s

\* AnimatedSprite::set_default_animation (the state; the call returns Some
\* exactly when contains_key(s, key))
set_default_animation(s, key) ==
    IF contains_key(s, key) THEN
        LET s1 == [s EXCEPT !.default_animation_key = key]
        IN  IF s1.animation_queue = <<>>
            THEN start_new_animation(s1, key, F32_MAX)
            ELSE s1
    ELSE s

\* AnimatedSprite::register_animation
register_animation(s, key, animation) ==
    [s EXCEPT !.animations =
        [k \in DOMAIN s.animations \cup {key} |->
            IF k = key THEN animation ELSE s.animations[k]]]

\* AnimatedSprite::delete_animation
delete_animation(s, key) ==
    [s EXCEPT !.animations = [k \in DOMAIN s.animations \ {key} |-> s.animations[k]]]

\* Mutant: the enqueue does not look the key up.
add_animation_to_queue_Unchecked(s, key, duration) ==
    [s EXCEPT !.animation_queue = push_back(s.animation_queue, <<key, duration>>)]

\* Mutant: every enqueue restarts the animation (the len() == 1 test is lost).
add_animation_to_queue_AlwaysStart(s, key, duration) ==
    IF contains_key(s, key) THEN
        start_new_animation(
            [s EXCEPT !.animation_queue = push_back(s.animation_queue, <<key, duration>>)],
            key, duration)
    ELSE s

\* AnimatedSprite::add_animation_to_queue (the state; the call returns Some
\* exactly when contains_key(s, key))
add_animation_to_queue(s, key, duration) ==
    IF contains_key(s, key) THEN
        LET s1 == [s EXCEPT !.animation_queue = push_back(s.animation_queue, <<key, duration>>)]
        IN  IF Len(s1.animation_queue) = 1
            THEN start_new_animation(s1, key, duration)
            ELSE s1
    ELSE s

\* Mutant: next_in_queue also restarts the lifetime timer.
next_in_queue_ResetsPlayingTime(s) ==
    [s EXCEPT !.animation_queue = pop_front(s.animation_queue),
              !.current_frame = 0,
              !.current_animation_time = 0,
              !.playing_time = 0]

\* AnimatedSprite::next_in_queue
next_in_queue(s) ==
    [s EXCEPT !.animation_queue = pop_front(s.animation_queue),
              !.current_frame = 0,
              !.current_animation_time = 0]

\* AnimatedSprite::clear_queue
clear_queue(s) == [s EXCEPT !.animation_queue = <<>>]

\* Mutant: reset_queue also restarts the lifetime timer, as reset does.
reset_queue_ResetsPlayingTime(s) ==
    [s EXCEPT !.animation_queue = <<>>,
              !.current_frame = 0,
              !.current_animation_time = 0,
              !.playing_time = 0]

\* AnimatedSprite::reset_queue
reset_queue(s) ==
    [s EXCEPT !.animation_queue = <<>>,
              !.current_frame = 0,
              !.current_animation_time = 0]

\* AnimatedSprite::reset
reset(s) ==
    clear_queue([s EXCEPT !.current_frame = 0,
                          !.current_animation_time = 0,
                          !.playing_time = 0])

\* AnimatedSprite::play
play(s) == [s EXCEPT !.paused = FALSE]

\* Mutant: pause toggles the flag.
pause_Toggle(s) == [s EXCEPT !.paused = ~s.paused]

\* AnimatedSprite::pause
pause(s) == [s EXCEPT !.paused = TRUE]

\* AnimatedSprite::get_current_animation_key
get_current_animation_key(s) ==
    IF s.animation_queue = <<>> THEN s.default_animation_key
    ELSE Head(s.animation_queue)[1]

\* AnimatedSprite::get_current_animation is Some
has_current_animation(s) == contains_key(s, get_current_animation_key(s))

\* AnimatedSprite::get_current_animation, when it is Some
get_current_animation(s) == s.animations[get_current_animation_key(s)]


\* Mutant: the frame number is stored as given.
set_frame_NoModulo(s, frame) ==
    IF ~has_current_animation(s) THEN s
    ELSE [s EXCEPT !.current_frame = frame]

\* AnimatedSprite::set_frame (the state; no current animation: unchanged)
set_frame(s, frame) ==
    IF ~has_current_animation(s) THEN s
    ELSE [s EXCEPT !.current_frame = frame % total_frames(get_current_animation(s))]

\* ------------------------------------------- frame rectangle, draw, panics

\* An Animation written as a struct literal (all its fields are pub): no
\* constructor has put at least one row and one frame per row into it.
Animation_literal(rows, frames_per_row, fps) ==
    [rows |-> rows, frames_per_row |-> frames_per_row, fps |-> fps, effect |-> NoEffect]

\* Animation::get_row_and_frame_and_fps: the tuple (row, frame, fps), or a
\* panic of "current_frame % total_frames" when total_frames is 0 and fps
\* is not.
get_row_and_frame_and_fps(a, frame) ==
    IF total_frames(a) = 0 /\ a.fps = 0 THEN [panic |-> FALSE, value |-> <<0, 0, 0>>]
    ELSE IF total_frames(a) = 0 THEN [panic |-> TRUE, value |-> <<>>]
    ELSE [panic |-> FALSE,
          value |-> <<a.rows[((frame % total_frames(a)) \div a.frames_per_row) + 1],
                      (frame % total_frames(a)) % a.frames_per_row,
                      a.fps>>]

\* AnimatedSprite::get_current_frame_rect: None without a current animation,
\* else Some(Rect) of the tile at (frame, row), in tiles; or the panic of
\* get_row_and_frame_and_fps.
get_current_frame_rect(s) ==
    IF ~has_current_animation(s)
    THEN [panic |-> FALSE, some |-> FALSE, rect |-> <<>>]
    ELSE LET rf == get_row_and_frame_and_fps(get_current_animation(s), s.current_frame)
         IN  IF rf.panic THEN [panic |-> TRUE, some |-> FALSE, rect |-> <<>>]
             ELSE [panic |-> FALSE, some |-> TRUE, rect |-> <<rf.value[2], rf.value[1]>>]

\* AnimatedSprite::draw_animation_ex: the number of draw_texture_ex calls it
\* issues, or the panic of get_row_and_frame_and_fps.
draw_animation_ex(s) ==
    IF ~contains_key(s, s.current_animation_key) THEN [panic |-> FALSE, draws |-> 0]
    ELSE IF s.animations[s.current_animation_key].fps = 0 THEN [panic |-> FALSE, draws |-> 0]
    ELSE IF get_row_and_frame_and_fps(s.animations[s.current_animation_key],
                                      s.current_frame).panic
         THEN [panic |-> TRUE, draws |-> 0]
         ELSE [panic |-> FALSE, draws |-> 1]

\* The outcomes of AnimatedSprite::is_last_frame.  total_frames() - 1 on a
\* u32 of 0 panics in a build with overflow checks and wraps to u32::MAX in
\* a build without them, which no current_frame of the model equals.
is_last_frame(s) ==
    IF ~has_current_animation(s) THEN {[panic |-> FALSE, value |-> FALSE]}
    ELSE IF total_frames(get_current_animation(s)) = 0
         THEN {[panic |-> TRUE, value |-> FALSE], [panic |-> FALSE, value |-> FALSE]}
         ELSE {[panic |-> FALSE,
                value |-> s.current_frame = total_frames(get_current_animation(s)) - 1]}

\* set_frame panics: "frame % animation.total_frames()" with no frames.
set_frame_panics(s) ==
    has_current_animation(s) /\ total_frames(get_current_animation(s)) = 0

\* update panics: the frame loop runs "(current_frame + 1) % total_frames()"
\* with no frames, once the loop time has reached the frame period.
update_panics(s, dt) ==
    /\ ~s.paused
    /\ contains_key(s, s.current_animation_key)
    /\ total_frames(s.animations[s.current_animation_key]) = 0
    /\ F32Add(s.current_animation_loop_time, dt)
           >= FrameDuration(s.animations[s.current_animation_key].fps)

\* ---------------------------------------------------------- serialization

\* #[derive(Serialize)] on Animation: the fields in the order of declaration.
serialize_Animation(a) == <<a.rows, a.frames_per_row, a.fps, a.effect>>

\* #[derive(Deserialize)] on Animation
deserialize_Animation(b) ==
    [rows |-> b[1], frames_per_row |-> b[2], fps |-> b[3], effect |-> b[4]]

\* #[derive(Serialize)] on InternalEffectsState
serialize_InternalEffectsState(es) ==
    <<es.effect_time, es.current_effect_duration, es.effect_start_time,
      es.is_active, es.has_played>>

\* #[derive(Deserialize)] on InternalEffectsState
deserialize_InternalEffectsState(b) ==
    [effect_time |-> b[1], current_effect_duration |-> b[2],
     effect_start_time |-> b[3], is_active |-> b[4], has_played |-> b[5]]

\* Mutant: current_queue_time is skipped and restored as its default, 0.0.
serialize_SkipQueueTime(s) ==
    << [k \in DOMAIN s.animations |-> serialize_Animation(s.animations[k])],
       s.default_animation_key,
       s.animation_queue,
       s.current_frame,
       s.current_animation_loop_time,
       s.current_animation_time,
       0,
       s.playing_time,
       s.paused,
       s.current_animation_key,
       s.previous_animation_key,
       serialize_InternalEffectsState(s.effects_state) >>

\* #[derive(Serialize)] on AnimatedSprite: the fields in the order of
\* declaration (tile_width and tile_height, which only draw reads, are not
\* part of the model), none of them skipped.
serialize(s) ==
    << [k \in DOMAIN s.animations |-> serialize_Animation(s.animations[k])],
       s.default_animation_key,
       s.animation_queue,
       s.current_frame,
       s.current_animation_loop_time,
       s.current_animation_time,
       s.current_queue_time,
       s.playing_time,
       s.paused,
       s.current_animation_key,
       s.previous_animation_key,
       serialize_InternalEffectsState(s.effects_state) >>

\* #[derive(Deserialize)] on AnimatedSprite.  The restored sprite carries no
\* observation of a playing instance.
deserialize(b) ==
    [animations |-> [k \in DOMAIN b[1] |-> deserialize_Animation(b[1][k])],
     default_animation_key |-> b[2],
     animation_queue |-> b[3],
     current_frame |-> b[4],
     current_animation_loop_time |-> b[5],
     current_animation_time |-> b[6],
     current_queue_time |-> b[7],
     playing_time |-> b[8],
     paused |-> b[9],
     current_animation_key |-> b[10],
     previous_animation_key |-> b[11],
     effects_state |-> deserialize_InternalEffectsState(b[12]),
     inst |-> NoInstance]

\* ------------------------------------------------ AnimatedSprite::update

\* playing_time += dt; current_animation_loop_time += dt; ...
AccumulateTime(s, dt) ==
    [s EXCEPT !.playing_time = F32Add(@, dt),
              !.current_animation_loop_time = F32Add(@, dt),
              !.current_animation_time = F32Add(@, dt),
              !.current_queue_time = F32Add(@, dt)]

\* "Check if current animation is finished": the first test of the queue front.
QueueFrontFinished(s) ==
    /\ s.animation_queue # <<>>
    /\ s.current_queue_time >= Head(s.animation_queue)[2]

\* Mutant: the effect is never activated by update.
ActivateEffect_Never(es, effect, current_time) == es

\* Mutant: the activation does not test has_played.
ActivateEffect_IgnoringHasPlayed(es, effect, current_time) ==
    IF effect.target = "Start" THEN
        IF ~es.is_active
        THEN [es EXCEPT !.is_active = TRUE, !.effect_time = 0]
        ELSE es
    ELSE IF effect.target = "End" THEN
        IF ~es.is_active /\ current_time >= es.effect_start_time
        THEN [es EXCEPT !.is_active = TRUE, !.effect_time = 0]
        ELSE es
    ELSE es

\* "Handle effect activation"
ActivateEffect(es, effect, current_time) ==
    IF effect.target = "Start" THEN
        IF ~es.is_active /\ ~es.has_played
        THEN [es EXCEPT !.is_active = TRUE, !.effect_time = 0]
        ELSE es
    ELSE IF effect.target = "End" THEN
        IF ~es.is_active /\ ~es.has_played /\ current_time >= es.effect_start_time
        THEN [es EXCEPT !.is_active = TRUE, !.effect_time = 0]
        ELSE es
    ELSE es

\* Mutant: the completed effect is marked as played but stays active.
UpdateEffectState_StaysActive(es, dt) ==
    IF es.is_active THEN
        LET t == F32Add(es.effect_time, dt)
        IN  IF t >= es.current_effect_duration
            THEN [es EXCEPT !.effect_time = t, !.has_played = TRUE]
            ELSE [es EXCEPT !.effect_time = t]
    ELSE es

\* Mutant: the effect completes only when effect_time is beyond its duration.
UpdateEffectState_StrictCompletion(es, dt) ==
    IF es.is_active THEN
        LET t == F32Add(es.effect_time, dt)
        IN  IF t > es.current_effect_duration
            THEN [es EXCEPT !.effect_time = t, !.is_active = FALSE, !.has_played = TRUE]
            ELSE [es EXCEPT !.effect_time = t]
    ELSE es

\* "Update effect state"
UpdateEffectState(es, dt) ==
    IF es.is_active THEN
        LET t == F32Add(es.effect_time, dt)
        IN  IF t >= es.current_effect_duration
            THEN [es EXCEPT !.effect_time = t, !.is_active = FALSE, !.has_played = TRUE]
            ELSE [es EXCEPT !.effect_time = t]
    ELSE es

\* Mutant: an if in place of the while, at most one frame per update.
FrameLoop_SingleStep(frame, loop_time, frame_duration, total) ==
    IF loop_time >= frame_duration
    THEN <<(frame + 1) % total, F32Sub(loop_time, frame_duration)>>
    ELSE <<frame, loop_time>>

\* "Handle frame update": the while loop, as <<current_frame, loop_time>>.
RECURSIVE FrameLoop(_, _, _, _)
FrameLoop(frame, loop_time, frame_duration, total) ==
    IF loop_time >= frame_duration
    THEN FrameLoop((frame + 1) % total, F32Sub(loop_time, frame_duration),
                   frame_duration, total)
    ELSE <<frame, loop_time>>

\* Mutant: an empty queue counts as a finished duration (unwrap_or(0.0)).
QueuedDurationReached_EmptyIsDone(s) ==
    s.current_queue_time >=
        (IF s.animation_queue = <<>> THEN 0 ELSE Head(s.animation_queue)[2])

\* "Check if we've reached the end of the queued duration": the second test.
QueuedDurationReached(s) ==
    s.current_queue_time >=
        (IF s.animation_queue = <<>> THEN F32_MAX ELSE Head(s.animation_queue)[2])

\* The element of a singleton set: { e : x \in {v} } computes v once for
\* all its uses in e.
The(S) == CHOOSE x \in S : TRUE

\* The body of "if let Some(animation) = self.animations.get(..)": effect
\* activation, effect update, frame loop, second test of the queue duration;
\* s1 is the sprite after the timers were advanced and switch_animation the
\* result of the first test.
UpdateAnimation(s1, animation, dt, switch_animation) ==
    The({ LET s2 == [s1 EXCEPT !.effects_state = es2,
                               !.current_frame = fl[1],
                               !.current_animation_loop_time = fl[2],
                               !.inst.activations =
                                   IF ~s1.effects_state.is_active
                                      /\ ActivateEffect(s1.effects_state, animation.effect,
                                                        s1.current_animation_time).is_active
                                   THEN @ + 1 ELSE @]
          IN  <<s2, switch_animation \/ QueuedDurationReached(s2)>>
          : es2 \in {UpdateEffectState(
                         ActivateEffect(s1.effects_state, animation.effect,
                                        s1.current_animation_time), dt)},
            fl \in {FrameLoop(s1.current_frame, s1.current_animation_loop_time,
                              FrameDuration(animation.fps), total_frames(animation))} })

\* update up to the switch: <<state, switch_animation>>.
UpdateBody(s, dt) ==
    The({ IF ~contains_key(s1, s1.current_animation_key)
          THEN <<s1, QueueFrontFinished(s1)>>
          ELSE UpdateAnimation(s1, s1.animations[s1.current_animation_key], dt,
                               QueueFrontFinished(s1))
          : s1 \in {AccumulateTime(s, dt)} })

\* Mutant: the switch never happens.
SwitchAllowed_Never(switch_animation, es) == FALSE

\* Mutant: the switch ignores the effect tracker.
SwitchAllowed_IgnoringEffect(switch_animation, es) == switch_animation

\* if switch_animation && !self.effects_state.is_active
SwitchAllowed(switch_animation, es) == switch_animation /\ ~es.is_active

\* Mutant: every entry the elapsed queue time covers is popped.
RECURSIVE SwitchAnimation_PopsAllFinished(_)
SwitchAnimation_PopsAllFinished(s) ==
    LET s1 == [s EXCEPT !.animation_queue = pop_front(s.animation_queue)]
    IN  IF s1.animation_queue # <<>>
        THEN IF s.animation_queue # <<>>
                /\ s.current_queue_time - Head(s.animation_queue)[2]
                       >= Head(s1.animation_queue)[2]
             THEN SwitchAnimation_PopsAllFinished(
                      [s1 EXCEPT !.current_queue_time =
                                     s.current_queue_time - Head(s.animation_queue)[2]])
             ELSE start_new_animation(s1, Head(s1.animation_queue)[1],
                                      Head(s1.animation_queue)[2])
        ELSE start_new_animation(s1, s1.default_animation_key, F32_MAX)

\* The body of that if: pop the front, start the new front or the default.
SwitchAnimation(s) ==
    LET s1 == [s EXCEPT !.animation_queue = pop_front(s.animation_queue)]
    IN  IF s1.animation_queue # <<>>
        THEN start_new_animation(s1, Head(s1.animation_queue)[1], Head(s1.animation_queue)[2])
        ELSE start_new_animation(s1, s1.default_animation_key, F32_MAX)

\* Mutant: update does not test paused.
UpdateOutcome_IgnoringPause(s, dt) ==
    The({ IF SwitchAllowed(body[2], body[1].effects_state)
          THEN [state |-> SwitchAnimation(body[1]), checked |-> body[1],
                switched |-> TRUE]
          ELSE [state |-> body[1], checked |-> body[1], switched |-> FALSE]
          : body \in {UpdateBody(s, dt)} })

\* AnimatedSprite::update with what it did: the state it returns, the state
\* at its switch test ("if switch_animation && !is_active": checked), and
\* whether it took that branch (switched).
UpdateOutcome(s, dt) ==
    IF s.paused THEN [state |-> s, checked |-> s, switched |-> FALSE]
    ELSE
        The({ IF SwitchAllowed(body[2], body[1].effects_state)
              THEN [state |-> SwitchAnimation(body[1]), checked |-> body[1],
                    switched |-> TRUE]
              ELSE [state |-> body[1], checked |-> body[1], switched |-> FALSE]
              : body \in {UpdateBody(s, dt)} })

\* AnimatedSprite::update, with dt the value of get_frame_time().
update(s, dt) == UpdateOutcome(s, dt).state

\* ------------------------------------------------------------ observation

\* What the last call was: its name, its key and number arguments, whether it
\* returned Some (ok), whether it panicked instead of returning (panic), and for update the sprite at its switch test, after the
\* timers, the effect and the frame were updated (checked; for any other call
\* the sprite it returned) and whether it then popped the queue and started
\* an animation (switched).
Observe(op, key, arg, ok, checked, switched) ==
    [op |-> op, key |-> key, arg |-> arg, ok |-> ok, checked |-> checked,
     switched |-> switched, panic |-> FALSE]

\* The call op did not return: it panicked on the sprite s.
Abort(op, arg, s) ==
    [op |-> op, key |-> None, arg |-> arg, ok |-> FALSE, checked |-> s,
     switched |-> FALSE, panic |-> TRUE]

\* ---------------------------------------------------------------- actions

\* No timer may pass MaxTime.
WithinTime(s, dt) ==
    /\ s.playing_time + dt <= MaxTime
    /\ s.current_animation_loop_time + dt <= MaxTime
    /\ s.current_animation_time + dt <= MaxTime
    /\ s.current_queue_time + dt <= MaxTime

\* The sprite is s, a freshly constructed value.
Constructed(s) ==
    /\ animations = s.animations
    /\ default_animation_key = s.default_animation_key
    /\ animation_queue = s.animation_queue
    /\ current_frame = s.current_frame
    /\ current_animation_loop_time = s.current_animation_loop_time
    /\ current_animation_time = s.current_animation_time
    /\ current_queue_time = s.current_queue_time
    /\ playing_time = s.playing_time
    /\ paused = s.paused
    /\ current_animation_key = s.current_animation_key
    /\ previous_animation_key = s.previous_animation_key
    /\ effects_state = s.effects_state
    /\ inst = s.inst

\* The sprite as the application sets it up: AnimatedSprite::new with the
\* default animation, then possibly register_animation of a second one.
Setup ==
    \E a \in AnimLib :
        \/ Constructed(AnimatedSprite_new("idle", a))
        \/ \E b \in AnimLib \ {Animation_empty} :
            Constructed(register_animation(AnimatedSprite_new("idle", a), "attack", b))

Init ==
    /\ Setup
    /\ ev = Observe("new", "idle", 0, TRUE, Self, FALSE)
    /\ calls = 0
    /\ enq_log = <<>>
    /\ played_log = <<>>
    /\ clock = NoClock

\* One call of update(dt), observed at its switch test.
Tick(dt) ==
    \E outcome \in {UpdateOutcome(Self, dt)} :
        /\ Assign(outcome.state)
        /\ ev' = Observe("update", None, 0, TRUE, outcome.checked, outcome.switched)

UpdateStep(dt) ==
    /\ paused \/ WithinTime(Self, dt)
    /\ Tick(dt)

Update == \E dt \in Deltas : UpdateStep(dt) /\ UNCHANGED <<calls, log_vars>>

AddStep(key, duration) ==
    /\ Len(animation_queue) < MaxQueue
    /\ LET s == add_animation_to_queue(Touch(Self), key, duration)
       IN  /\ Assign(s)
           /\ ev' = Observe("add_animation_to_queue", key, duration,
                            contains_key(Self, key), s, FALSE)

AddAnimationToQueue ==
    \E e \in EnqueueInputs :
        AddStep(e[1], e[2]) /\ UNCHANGED <<calls, log_vars>>

\* A call besides update and enqueue: it leaves the sprite as s.
Call(op, key, arg, ok, s) ==
    /\ calls < MaxCalls
    /\ calls' = calls + 1
    /\ Assign(s)
    /\ ev' = Observe(op, key, arg, ok, s, FALSE)
    /\ UNCHANGED log_vars

SetDefaultAnimation ==
    \E key \in Keys :
        Call("set_default_animation", key, 0, contains_key(Self, key),
             set_default_animation(Touch(Self), key))

RegisterAnimation ==
    \E key \in Keys, a \in AnimLib :
        Call("register_animation", key, 0, TRUE, register_animation(Touch(Self), key, a))

DeleteAnimation ==
    \E key \in Keys :
        Call("delete_animation", key, 0, TRUE, delete_animation(Touch(Self), key))

NextInQueue == Call("next_in_queue", None, 0, TRUE, next_in_queue(Touch(Self)))

ResetQueue == Call("reset_queue", None, 0, TRUE, reset_queue(Touch(Self)))

ClearQueue == Call("clear_queue", None, 0, TRUE, clear_queue(Touch(Self)))

Reset == Call("reset", None, 0, TRUE, reset(Touch(Self)))

Play == Call("play", None, 0, TRUE, play(Touch(Self)))

Pause == Call("pause", None, 0, TRUE, pause(Touch(Self)))

\* Frame numbers passed to set_frame.
FrameInputs == {3}

SetFrame ==
    \E frame \in FrameInputs :
        Call("set_frame", None, frame, has_current_animation(Self),
             set_frame(Touch(Self), frame))

Next ==
    \/ Update
    \/ AddAnimationToQueue
    \/ SetDefaultAnimation
    \/ RegisterAnimation
    \/ DeleteAnimation
    \/ NextInQueue
    \/ ResetQueue
    \/ ClearQueue
    \/ Reset
    \/ Play
    \/ Pause
    \/ SetFrame

Spec == Init /\ [][Next]_vars

\* ------------------------------------------------ the documented scenario
\* One second, in the model's unit of 1/60 s.
Second == 60 * 1

\* The tick of the scenario: 0.1 s.
ScenarioDelta == Second \div 10

\* Queue durations (1.0 s, 1.5 s) and End effect durations (0.5 s, 1.25 s,
\* 1.5 s) of the scenario and of its variations.
ScenarioDurations == {Second, (3 * Second) \div 2}

ScenarioEffects == {Second \div 2, (5 * Second) \div 4, (3 * Second) \div 2}

\* Bound: the playing time up to which the scenario is ticked.
MaxScenarioTime == 120

\* 'idle' (4 frames, 6 fps) is the default, 'attack' (6 frames, 12 fps) has an
\* End effect.
ScenarioInit ==
    /\ \E d \in ScenarioEffects :
           Constructed(register_animation(
               AnimatedSprite_new("idle", Animation_new(0, 4, 6)),
               "attack", with_end_effect(Animation_new(1, 6, 12), d)))
    /\ ev = Observe("new", "idle", 0, TRUE, Self, FALSE)
    /\ calls = 0
    /\ enq_log = <<>>
    /\ played_log = <<>>
    /\ clock = NoClock

\* 'attack' is enqueued once.
ScenarioEnqueue ==
    /\ enq_log = <<>>
    /\ \E q \in ScenarioDurations :
           /\ AddStep("attack", q)
           /\ enq_log' = <<<<"attack", q>>>>
    /\ UNCHANGED <<calls, played_log, clock>>

ScenarioUpdate ==
    /\ playing_time + ScenarioDelta <= MaxScenarioTime
    /\ Tick(ScenarioDelta)
    /\ UNCHANGED <<calls, log_vars>>

NextScenario ==
    \/ ScenarioEnqueue
    \/ ScenarioUpdate

SpecScenario == ScenarioInit /\ [][NextScenario]_vars

\* ------------------------------------------------ enqueues and ticks, logged
\* The entry the sprite plays after a start-transition.
Played(s) == <<s.current_animation_key, s.inst.duration>>

\* A successful enqueue is logged; it is logged as played when it started the
\* entry (the queue was empty).
FifoEnqueue ==
    /\ Len(enq_log) < MaxLog
    /\ \E e \in EnqueueInputs :
           /\ AddStep(e[1], e[2])
           /\ LET s == add_animation_to_queue(Touch(Self), e[1], e[2])
              IN  /\ enq_log' = IF contains_key(Self, e[1])
                                 THEN Append(enq_log, e) ELSE enq_log
                  /\ played_log' = IF s.inst.clean
                                    THEN Append(played_log, Played(s)) ELSE played_log
    /\ UNCHANGED <<calls, clock>>

\* A tick that starts the next queue entry logs it as played.
FifoUpdate ==
    /\ \E dt \in Deltas :
           /\ UpdateStep(dt)
           /\ LET outcome == UpdateOutcome(Self, dt)
              IN  played_log' =
                      IF outcome.switched /\ outcome.state.animation_queue # <<>>
                      THEN Append(played_log, Played(outcome.state)) ELSE played_log
    /\ UNCHANGED <<calls, enq_log, clock>>

\* Enqueues and ticks, with the calls that do not remove queue entries.
NextFifo ==
    \/ FifoUpdate
    \/ FifoEnqueue
    \/ SetDefaultAnimation
    \/ RegisterAnimation
    \/ Play
    \/ Pause
    \/ SetFrame

SpecFifo == Init /\ [][NextFifo]_vars

\* ------------------------------------------------ update called for ever
\* A timer value from which every comparison of update has the same outcome:
\* no queue duration, effect window or finite frame period of the inputs is
\* longer.
LiveCap == MaxTime

\* Bound: the number of enqueues in a behaviour of SpecLive.
MaxLiveEnqueues == 2

\* The timers, kept at LiveCap once they are beyond it.
Saturate(s) ==
    [s EXCEPT !.current_animation_loop_time = Min(@, LiveCap),
              !.current_animation_time = Min(@, LiveCap),
              !.current_queue_time = Min(@, LiveCap),
              !.playing_time = Min(@, LiveCap),
              !.effects_state.effect_time = Min(@, LiveCap)]

\* update with a positive delta, at any time.
LiveUpdate ==
    /\ \E dt \in Deltas :
           \E outcome \in {UpdateOutcome(Self, dt)} :
               /\ Assign(Saturate(outcome.state))
               /\ ev' = Observe("update", None, 0, TRUE,
                                Saturate(outcome.checked), outcome.switched)
    /\ UNCHANGED <<calls, log_vars>>

\* Finitely many enqueues.
LiveEnqueue ==
    /\ Len(enq_log) < MaxLiveEnqueues
    /\ \E e \in EnqueueInputs :
           /\ AddStep(e[1], e[2])
           /\ enq_log' = Append(enq_log, e)
    /\ UNCHANGED <<calls, played_log, clock>>

\* Auto-chaining: ticks and enqueues, with the calls that neither pause the
\* sprite, nor delete an animation, nor remove queue entries by hand.
NextLive ==
    \/ LiveUpdate
    \/ LiveEnqueue
    \/ SetDefaultAnimation
    \/ RegisterAnimation

\* update keeps being called.
SpecLive == Init /\ [][NextLive]_vars /\ WF_vars(LiveUpdate)


\* ------------------------------------------------- calls between updates
\* Bound: the number of calls other than update and add_animation_to_queue
\* in SpecCalls.
MaxInterleavedCalls == 2

\* One of at most MaxInterleavedCalls calls: it leaves the sprite as s.
InterleavedCall(op, key, arg, ok, s) ==
    /\ calls < MaxInterleavedCalls
    /\ calls' = calls + 1
    /\ Assign(s)
    /\ ev' = Observe(op, key, arg, ok, s, FALSE)
    /\ UNCHANGED log_vars

CallsRegisterAnimation ==
    \E key \in Keys, a \in AnimLib :
        InterleavedCall("register_animation", key, 0, TRUE,
                        register_animation(Touch(Self), key, a))

CallsDeleteAnimation ==
    \E key \in Keys :
        InterleavedCall("delete_animation", key, 0, TRUE,
                        delete_animation(Touch(Self), key))

CallsNextInQueue ==
    InterleavedCall("next_in_queue", None, 0, TRUE, next_in_queue(Touch(Self)))

CallsResetQueue ==
    InterleavedCall("reset_queue", None, 0, TRUE, reset_queue(Touch(Self)))

CallsSetFrame ==
    \E frame \in FrameInputs :
        InterleavedCall("set_frame", None, frame, has_current_animation(Self),
                        set_frame(Touch(Self), frame))

CallsPause == InterleavedCall("pause", None, 0, TRUE, pause(Touch(Self)))

CallsPlay == InterleavedCall("play", None, 0, TRUE, play(Touch(Self)))

\* Ticks and enqueues, interleaved with register, delete, next_in_queue,
\* reset_queue, set_frame, pause and play.
NextCalls ==
    \/ Update
    \/ AddAnimationToQueue
    \/ CallsRegisterAnimation
    \/ CallsDeleteAnimation
    \/ CallsNextInQueue
    \/ CallsResetQueue
    \/ CallsSetFrame
    \/ CallsPause
    \/ CallsPlay

SpecCalls == Init /\ [][NextCalls]_vars

\* ------------------------------------------------------ the lifetime timer
\* In SpecLifetime clock.t is the sum of the deltas of the updates that found
\* the sprite not paused, since construction or since the last reset(), in
\* 1/60 s.

\* update: the delta counts unless the sprite is paused.
LifetimeUpdate ==
    /\ \E dt \in Deltas :
           /\ UpdateStep(dt)
           /\ clock' = IF paused THEN clock ELSE [clock EXCEPT !.t = @ + dt]
    /\ UNCHANGED <<calls, enq_log, played_log>>

LifetimeSetDefaultAnimation ==
    \E key \in Keys :
        InterleavedCall("set_default_animation", key, 0, contains_key(Self, key),
                        set_default_animation(Touch(Self), key))

LifetimeClearQueue ==
    InterleavedCall("clear_queue", None, 0, TRUE, clear_queue(Touch(Self)))

\* reset(): the sum starts again.
LifetimeReset ==
    /\ calls < MaxInterleavedCalls
    /\ calls' = calls + 1
    /\ LET s == reset(Touch(Self))
       IN  /\ Assign(s)
           /\ ev' = Observe("reset", None, 0, TRUE, s, FALSE)
    /\ clock' = NoClock
    /\ UNCHANGED <<enq_log, played_log>>

\* Ticks and enqueues, interleaved with set_default_animation, next_in_queue,
\* reset_queue, clear_queue, reset, pause and play.
NextLifetime ==
    \/ LifetimeUpdate
    \/ AddAnimationToQueue
    \/ LifetimeSetDefaultAnimation
    \/ CallsNextInQueue
    \/ CallsResetQueue
    \/ LifetimeClearQueue
    \/ LifetimeReset
    \/ CallsPause
    \/ CallsPlay

SpecLifetime == Init /\ [][NextLifetime]_vars

\* ------------------------------------------------------ dangling entries
\* Ticks and enqueues as in SpecLive, and delete_animation.
NextDangling ==
    \/ LiveUpdate
    \/ LiveEnqueue
    \/ DeleteAnimation

\* update keeps being called.
SpecDangling == Init /\ [][NextDangling]_vars /\ WF_vars(LiveUpdate)

\* --------------------------------------------------------------- set_frame
\* Bound: the number of delete_animation and set_frame calls in SpecFrame.
MaxFrameCalls == 2

\* Frame numbers passed to set_frame in SpecFrame.
SetFrameInputs == {0, 3, 5}

\* One of at most MaxFrameCalls calls: it leaves the sprite as s.
FrameCall(op, key, arg, ok, s) ==
    /\ calls < MaxFrameCalls
    /\ calls' = calls + 1
    /\ Assign(s)
    /\ ev' = Observe(op, key, arg, ok, s, FALSE)
    /\ UNCHANGED log_vars

FrameDeleteAnimation ==
    \E key \in Keys :
        FrameCall("delete_animation", key, 0, TRUE, delete_animation(Touch(Self), key))

FrameSetFrame ==
    \E frame \in SetFrameInputs :
        FrameCall("set_frame", None, frame, has_current_animation(Self),
                  set_frame(Touch(Self), frame))

NextFrame ==
    \/ Update
    \/ AddAnimationToQueue
    \/ FrameDeleteAnimation
    \/ FrameSetFrame

SpecFrame == Init /\ [][NextFrame]_vars

\* ------------------------------------------------ the frame timer in f32
\* 1.0f32, in the unit of SpecF32: 2^-29 s.
One == 2^29

\* The clock counts in units of 1 / ClockRate s.
ClockRate == 40

\* Bound: the playing time, in units of the clock, up to which SpecF32 ticks
\* (1.5 s).
MaxF32Time == 60

\* The deltas get_frame_time returns in SpecF32, as fractions of a second:
\* 0.1 s, 1/8 s and 1/4 s.
F32Deltas == {[num |-> 1, den |-> 10], [num |-> 1, den |-> 8], [num |-> 1, den |-> 4]}

\* The f32 value of such a delta.
F32Delta(d) == F32Div(One * d.num, d.den)

\* A time that is a whole number of units of 2^-9 s: sums of such times below
\* 4 s have at most 11 significant bits and are not rounded.
Dyadic(x) == x % 2^20 = 0

\* let frame_duration = 1.0 / animation.fps as f32, in units of 2^-29 s.
F32FrameDuration(fps) == IF fps = 0 THEN F32_INF ELSE F32Div(One, fps)

F32Animations == {Animation_new(0, 4, 6), Animation_new(0, 4, 8), Animation_new(1, 6, 12)}

\* update of an unpaused sprite whose queue is empty and whose current
\* animation has no effect: the timers are advanced and the frame loop runs;
\* the effect blocks and the switch do nothing.
F32UpdateFrames(s, dt) ==
    The({ The({ [s1 EXCEPT !.current_frame = fl[1],
                           !.current_animation_loop_time = fl[2]]
                : fl \in {FrameLoop(s1.current_frame, s1.current_animation_loop_time,
                                    F32FrameDuration(
                                        s1.animations[s1.current_animation_key].fps),
                                    total_frames(
                                        s1.animations[s1.current_animation_key]))} })
          : s1 \in {AccumulateTime(s, dt)} })

\* The default animation, started by set_default_animation.
F32Init ==
    /\ \E a \in F32Animations :
           Constructed(set_default_animation(AnimatedSprite_new("idle", a), "idle"))
    /\ ev = Observe("new", "idle", 0, TRUE, Self, FALSE)
    /\ calls = 0
    /\ enq_log = <<>>
    /\ played_log = <<>>
    /\ clock = NoClock

F32Update ==
    /\ \E d \in F32Deltas :
           /\ playing_time \div (One \div ClockRate) + (d.num * ClockRate) \div d.den
                  <= MaxF32Time
           /\ \E s \in {F32UpdateFrames(Self, F32Delta(d))} :
                  /\ Assign(s)
                  /\ ev' = Observe("update", None, 0, TRUE, s, FALSE)
           /\ clock' = [t |-> clock.t + (d.num * ClockRate) \div d.den,
                        exact |-> clock.exact /\ Dyadic(F32Delta(d))]
    /\ UNCHANGED <<calls, enq_log, played_log>>

\* The default animation is started again: the clock starts again with it.
F32Restart ==
    /\ calls < MaxCalls
    /\ calls' = calls + 1
    /\ \E s \in {set_default_animation(Self, "idle")} :
           /\ Assign(s)
           /\ ev' = Observe("set_default_animation", "idle", 0, TRUE, s, FALSE)
    /\ clock' = NoClock
    /\ UNCHANGED <<enq_log, played_log>>

NextF32 ==
    \/ F32Update
    \/ F32Restart

SpecF32 == F32Init /\ [][NextF32]_vars

\* ---------------------------------------------------- degenerate animations
\* The animations of SpecDegenerate: Animation::empty(), a two-frame
\* animation that never advances (fps 0), an ordinary one, struct literals
\* without frames (no rows, or no frames per row), with and without a frame
\* rate, and the animations with an effect.
DegenerateLib ==
    {Animation_empty, Animation_new(0, 2, 0), Animation_new(0, 2, 6),
     Animation_literal(<<>>, 2, 6), Animation_literal(<<0>>, 0, 12),
     Animation_literal(<<>>, 0, 0)}
    \cup {with_start_effect(Animation_new(1, 2, 12), d) : d \in EffectDurations}
    \cup {with_end_effect(Animation_new(1, 2, 12), d) : d \in EffectDurations}

\* (key, duration) pairs passed to add_animation_to_queue in SpecDegenerate:
\* a duration of -5/60 s is one of them.
DegenerateEnqueues == {<<"attack", 5>>, <<"attack", 15>>, <<"attack", 0 - 5>>}

DegenerateInit ==
    /\ \E a \in DegenerateLib, b \in DegenerateLib :
           Constructed(register_animation(AnimatedSprite_new("idle", a), "attack", b))
    /\ ev = Observe("new", "idle", 0, TRUE, Self, FALSE)
    /\ calls = 0
    /\ enq_log = <<>>
    /\ played_log = <<>>
    /\ clock = NoClock

\* update: it panics, or it returns as in every other specification.
DegenerateUpdate ==
    /\ ~ev.panic
    /\ \E dt \in Deltas :
           /\ WithinTime(Self, dt)
           /\ IF update_panics(Self, dt)
              THEN /\ ev' = Abort("update", 0, Self)
                   /\ UNCHANGED sprite_vars
                   /\ UNCHANGED inst
              ELSE Tick(dt)
    /\ UNCHANGED <<calls, log_vars>>

DegenerateEnqueue ==
    /\ ~ev.panic
    /\ \E e \in DegenerateEnqueues : AddStep(e[1], e[2])
    /\ UNCHANGED <<calls, log_vars>>

DegenerateSetFrame ==
    /\ ~ev.panic
    /\ \E frame \in FrameInputs :
           IF set_frame_panics(Self)
           THEN /\ ev' = Abort("set_frame", frame, Self)
                /\ UNCHANGED sprite_vars
                /\ UNCHANGED inst
           ELSE \E s \in {set_frame(Touch(Self), frame)} :
                   /\ Assign(s)
                   /\ ev' = Observe("set_frame", None, frame,
                                    has_current_animation(Self), s, FALSE)
    /\ UNCHANGED <<calls, log_vars>>

\* A call that reads the sprite and returns, or panics.
Query(op, panics) ==
    /\ ~ev.panic
    /\ ev' = IF panics THEN Abort(op, 0, Self) ELSE Observe(op, None, 0, TRUE, Self, FALSE)
    /\ UNCHANGED sprite_vars
    /\ UNCHANGED inst
    /\ UNCHANGED <<calls, log_vars>>

DegenerateIsLastFrame == \E r \in is_last_frame(Self) : Query("is_last_frame", r.panic)

DegenerateGetCurrentFrameRect ==
    Query("get_current_frame_rect", get_current_frame_rect(Self).panic)

DegenerateDraw == Query("draw_animation_ex", draw_animation_ex(Self).panic)

NextDegenerate ==
    \/ DegenerateUpdate
    \/ DegenerateEnqueue
    \/ DegenerateSetFrame
    \/ DegenerateIsLastFrame
    \/ DegenerateGetCurrentFrameRect
    \/ DegenerateDraw

SpecDegenerate == DegenerateInit /\ [][NextDegenerate]_vars

\* ================================================================ claims

\* The sprite at the switch test of the last update.
AtCheck == ev.checked

\* The last call was an update of an unpaused sprite.
Ticked == ev.op = "update" /\ ~AtCheck.paused

\* The fields a start-transition into key with animation_duration leaves, as
\* the design describes them: counters zeroed, tracker reset, and the window
\* of the attached effect capped by animation_duration.
StartTransitionDone(s, before_key, key, animation_duration) ==
    /\ s.current_animation_key = key
    /\ s.previous_animation_key = before_key
    /\ s.current_frame = 0
    /\ s.current_animation_loop_time = 0
    /\ s.current_animation_time = 0
    /\ s.current_queue_time = 0
    /\ s.effects_state.effect_time = 0
    /\ ~s.effects_state.has_played
    /\ IF key \notin DOMAIN s.animations
       THEN s.effects_state = InternalEffectsState_new
       ELSE LET e == s.animations[key].effect
            IN  /\ s.effects_state.is_active = (e.target = "Start")
                /\ s.effects_state.current_effect_duration =
                       (IF e.target = "None" THEN 0 ELSE Min(e.duration, animation_duration))
                /\ s.effects_state.effect_start_time =
                       (IF e.target # "End" THEN 0
                        ELSE IF animation_duration = F32_MAX THEN F32_MAX
                        ELSE animation_duration - Min(e.duration, animation_duration))

\* ---- C1
\* C1: every update that pops the queue front and starts an animation found
\* the effect tracker inactive at its switch test, after its effect update.
C1_SwitchOnlyWhenInactive ==
    (ev.op = "update" /\ ev.switched) => ~AtCheck.effects_state.is_active

\* An update switched in the very tick in which the effect completed.
C1_Witness ==
    /\ ev.op = "update" /\ ev.switched
    /\ AtCheck.effects_state.has_played
    /\ AtCheck.effects_state.effect_time = AtCheck.effects_state.current_effect_duration
    /\ AtCheck.effects_state.current_effect_duration > 0

\* An update whose queued duration was over did not switch: the effect of the
\* playing animation was still active.
C1_BlockedTick ==
    /\ Ticked /\ ~ev.switched
    /\ AtCheck.effects_state.is_active
    /\ QueueFrontFinished(AtCheck)

\* ---- C2
\* The playing instance is a queue entry with an End effect that was started
\* by a start-transition and has only been ticked since.
EndInstance(s) ==
    /\ s.inst.started /\ s.inst.clean
    /\ s.animation_queue # <<>>
    /\ s.current_animation_key = Head(s.animation_queue)[1]
    /\ s.inst.duration = Head(s.animation_queue)[2]
    /\ contains_key(s, s.current_animation_key)
    /\ s.animations[s.current_animation_key].effect.target = "End"

\* C2: a queue entry with an End effect, enqueued with duration q and only
\* ticked, is switched away from exactly on the ticks at which the elapsed time
\* of the instance is >= max(q, effect_start_time + capped duration), that is
\* on the first such tick, and never before has_played is set.
C2_EndEffectSwitchTime ==
    (Ticked /\ EndInstance(AtCheck)) =>
        LET q == Head(AtCheck.animation_queue)[2]
            es == AtCheck.effects_state
        IN  /\ ev.switched <=>
                   AtCheck.current_animation_time >=
                       Max(q, es.effect_start_time + es.current_effect_duration)
            /\ ev.switched => es.has_played

\* A tick switched away from an End-effect instance whose effect started late.
C2_Witness ==
    /\ Ticked /\ EndInstance(AtCheck) /\ ev.switched
    /\ AtCheck.effects_state.effect_start_time > 0
    /\ AtCheck.effects_state.has_played

\* ---- C3
\* The End effect of the playing queue entry is longer than the entry's
\* duration.
ShortEndInstance(s) ==
    /\ EndInstance(s)
    /\ s.animations[s.current_animation_key].effect.duration > Head(s.animation_queue)[2]

\* C3 as stated: with an End(d) effect and a queue duration q < d, the tracker
\* is active until the effect has run for d, and no tick switches before.
C3_EffectNotTruncated ==
    (Ticked /\ ShortEndInstance(AtCheck)) =>
        LET d == AtCheck.animations[AtCheck.current_animation_key].effect.duration
            es == AtCheck.effects_state
        IN  /\ AtCheck.current_animation_time < d => es.is_active
            /\ ev.switched => (es.has_played /\ es.effect_time >= d)

\* C3, amended: with an End(d) effect and a queue duration q < d, the effect is
\* truncated to q: its window is [0, q), the tracker is active on the ticks
\* with elapsed time below q, and the switch is not deferred: it happens on
\* the first tick with elapsed time >= q, on which the effect completes.
C3_EffectTruncatedToDuration ==
    (Ticked /\ ShortEndInstance(AtCheck)) =>
        LET q == Head(AtCheck.animation_queue)[2]
            es == AtCheck.effects_state
        IN  /\ es.current_effect_duration = q
            /\ es.effect_start_time = 0
            /\ es.effect_time = AtCheck.current_animation_time
            /\ AtCheck.current_animation_time < q => (es.is_active /\ ~ev.switched)
            /\ AtCheck.current_animation_time >= q =>
                   (es.has_played /\ ~es.is_active /\ ev.switched)

\* The tick at 1.0 s switched away from an entry of 1.0 s whose End effect of
\* 1.25 s had been active on the ticks before.
C3_Witness ==
    /\ Ticked /\ ShortEndInstance(AtCheck) /\ ev.switched
    /\ AtCheck.current_animation_time = Second
    /\ AtCheck.animations["attack"].effect.duration = (5 * Second) \div 4
    /\ current_animation_key = "idle"

\* ---- C4
\* 'attack' with the End fade of 0.5 s plays as the queue entry of 1.5 s.
FadeInstance(s) ==
    /\ EndInstance(s)
    /\ s.current_animation_key = "attack"
    /\ Head(s.animation_queue)[2] = (3 * Second) \div 2
    /\ s.animations["attack"].effect.duration = Second \div 2

C4_FadeCompletesEarly ==
    /\ Ticked /\ FadeInstance(AtCheck) /\ ~ev.switched
    /\ AtCheck.current_animation_time = (3 * Second) \div 2 - ScenarioDelta
    /\ AtCheck.effects_state.has_played

\* ---- C5
\* C5: a tick that pops the last queue entry starts the default animation with
\* the unbounded duration, and no tick on an empty queue switches.
C5_DefaultPlaysOn ==
    /\ (ev.op = "update" /\ ev.switched /\ animation_queue = <<>>) =>
           /\ inst.started /\ inst.duration = F32_MAX
           /\ StartTransitionDone(Self, AtCheck.current_animation_key,
                                  default_animation_key, F32_MAX)
    /\ (Ticked /\ AtCheck.animation_queue = <<>>) => ~ev.switched

\* The queue drained to the default by ticks alone, and the default was then
\* ticked without a switch.
C5_Witness ==
    /\ calls = 0
    /\ Ticked /\ ~ev.switched
    /\ animation_queue = <<>>
    /\ inst.started /\ inst.duration = F32_MAX
    /\ current_animation_time > 0

\* ---- C8
\* C8: add_animation_to_queue and set_default_animation with an unregistered
\* key return None and leave every field of the sprite unchanged.
C8_UnregisteredKeyRejected ==
    [][(/\ ev'.op \in {"add_animation_to_queue", "set_default_animation"}
        /\ ev'.key \notin DOMAIN animations)
       => (~ev'.ok /\ UNCHANGED sprite_vars)]_vars

\* An enqueue of an unregistered key was rejected while an animation played
\* from the queue.
C8_Witness ==
    /\ ev.op = "add_animation_to_queue" /\ ~ev.ok
    /\ ev.key \notin DOMAIN animations
    /\ animation_queue # <<>>
    /\ current_animation_time > 0

\* ---- C9
\* C9: add_animation_to_queue with a registered key appends (key, duration) at
\* the back; it performs a start-transition into key with that duration if
\* the queue was empty, and otherwise leaves the current animation, the frame,
\* the timers and the effect tracker unchanged.
C9_EnqueueAppends ==
    [][(ev'.op = "add_animation_to_queue" /\ ev'.key \in DOMAIN animations)
       => /\ ev'.ok
          /\ animation_queue' = Append(animation_queue, <<ev'.key, ev'.arg>>)
          /\ UNCHANGED <<animations, default_animation_key, paused, playing_time>>
          /\ IF animation_queue = <<>>
             THEN StartTransitionDone(Self', current_animation_key, ev'.key, ev'.arg)
             ELSE UNCHANGED <<current_animation_key, previous_animation_key,
                              current_frame, current_animation_loop_time,
                              current_animation_time, current_queue_time,
                              effects_state>>]_vars

\* An entry was appended behind a playing one.
C9_Witness ==
    /\ ev.op = "add_animation_to_queue" /\ ev.ok
    /\ Len(animation_queue) = 2
    /\ animation_queue[2] = <<ev.key, ev.arg>>
    /\ current_animation_time > 0
    /\ effects_state.is_active

\* ---- C10
\* C10: set_default_animation with a registered key makes it the default; on
\* an empty queue it performs a start-transition into it with the unbounded
\* duration, on a non-empty queue it changes nothing else.
C10_SetDefault ==
    [][(ev'.op = "set_default_animation" /\ ev'.key \in DOMAIN animations)
       => /\ ev'.ok
          /\ default_animation_key' = ev'.key
          /\ UNCHANGED <<animations, animation_queue, paused, playing_time>>
          /\ IF animation_queue = <<>>
             THEN StartTransitionDone(Self', current_animation_key, ev'.key, F32_MAX)
             ELSE UNCHANGED <<current_animation_key, previous_animation_key,
                              current_frame, current_animation_loop_time,
                              current_animation_time, current_queue_time,
                              effects_state>>]_vars

\* The default was changed on an empty queue and the new default started.
C10_Witness ==
    /\ ev.op = "set_default_animation" /\ ev.ok
    /\ ev.key = "attack" /\ default_animation_key = "attack"
    /\ animation_queue = <<>>
    /\ current_animation_key = "attack" /\ previous_animation_key = "idle"
    /\ inst.duration = F32_MAX
    /\ playing_time > 0

\* ---- C6
\* C6: under enqueues and ticks the entries are played in the order of their
\* enqueueing, each once: the played entries are a prefix of the enqueued
\* ones, the queue holds the entry being played and the ones not yet played,
\* in order, and a tick switches away from an entry only when at least its
\* duration has elapsed since it became current.
C6_QueueIsFifo ==
    LET n == Len(played_log)
        m == Len(enq_log)
    IN  /\ n <= m
        /\ played_log = SubSeq(enq_log, 1, n)
        /\ IF animation_queue = <<>>
           THEN n = m
           ELSE /\ n >= 1
                /\ animation_queue = SubSeq(enq_log, n, m)
                /\ current_animation_key = enq_log[n][1]
        /\ (ev.op = "update" /\ ev.switched) =>
               /\ AtCheck.animation_queue # <<>>
               /\ AtCheck.current_animation_time >= Head(AtCheck.animation_queue)[2]

\* Three entries were enqueued, the third one behind the second, and a tick
\* switched from the second to the third.
C6_Witness ==
    /\ Len(enq_log) = 3 /\ Len(played_log) = 3
    /\ enq_log[1] # enq_log[2]
    /\ ev.op = "update" /\ ev.switched
    /\ animation_queue = <<enq_log[3]>>

\* ---- C7
\* C7: when update keeps being called with positive deltas on an unpaused
\* sprite of which no animation is deleted, a non-empty queue of entries with
\* finite durations is eventually drained, and the default animation is then
\* the one being played, started with the unbounded duration.
C7_QueueDrains ==
    (animation_queue # <<>>) ~>
        (/\ animation_queue = <<>>
         /\ current_animation_key = default_animation_key
         /\ inst.started /\ inst.duration = F32_MAX)

\* Two enqueued entries were drained by ticks, the second one after the
\* effect of the first had held the sprite's tracker active.
C7_Witness ==
    /\ Len(enq_log) = 2
    /\ ev.op = "update" /\ ev.switched
    /\ animation_queue = <<>>
    /\ current_animation_key = default_animation_key
    /\ inst.duration = F32_MAX
    /\ AtCheck.effects_state.has_played


\* ---- C11
\* C11: an update of a paused sprite leaves every field of the sprite
\* unchanged, whatever the delta: no timer advances, the frame stays, the queue
\* is not popped and the effect tracker keeps its flags.
C11_PausedUpdateIsNoOp ==
    [][(ev'.op = "update" /\ paused) => UNCHANGED sprite_vars]_vars

\* A paused sprite was ticked while a queue entry was playing with an active
\* effect.
C11_Witness ==
    /\ ev.op = "update" /\ paused /\ AtCheck.paused
    /\ animation_queue # <<>>
    /\ current_queue_time > 0
    /\ effects_state.is_active

\* ---- C12
\* C12: from every state, pause after pause gives the state pause gives, play
\* after play gives the state play gives, and neither changes a field other
\* than paused.
C12_PausePlayIdempotent ==
    /\ pause(pause(Self)) = pause(Self)
    /\ play(play(Self)) = play(Self)
    /\ pause(Self) = [Self EXCEPT !.paused = TRUE]
    /\ play(Self) = [Self EXCEPT !.paused = FALSE]
    /\ pause(play(Self)) = pause(Self)

\* pause was called while an animation was playing from the queue.
C12_Witness ==
    /\ ev.op = "pause" /\ paused
    /\ animation_queue # <<>>
    /\ current_animation_time > 0


\* ---- C13
\* The frame k mod N that an animation of fps F and N frames shows after
\* k / F seconds, k / F being the time on the clock.
FrameOnClock ==
    LET a == animations[current_animation_key]
    IN  ((clock.t * a.fps) \div ClockRate) % total_frames(a)

\* The time on the clock is k / F seconds for a whole k.
WholeFramesOnClock ==
    (clock.t * animations[current_animation_key].fps) % ClockRate = 0

\* C13 as stated: after ticks that add up to exactly k / F seconds, in any
\* split, current_frame is k mod N.
C13_FrameAdvanceExact ==
    (inst.started /\ WholeFramesOnClock) => current_frame = FrameOnClock

\* C13, amended: after ticks that add up to exactly k / F seconds, in any
\* split, current_frame is k mod N if the frame period 1 / F and every delta
\* are values that f32 adds without rounding (here: whole multiples of
\* 2^-9 s).
C13_FrameAdvanceUnrounded ==
    (/\ inst.started /\ WholeFramesOnClock
     /\ clock.exact
     /\ Dyadic(F32FrameDuration(animations[current_animation_key].fps)))
    => (/\ current_frame = FrameOnClock
        /\ current_animation_time = (clock.t \div 5) * (One \div 8))

\* 8 fps, 4 frames: after 1.25 s, ticked in deltas of 1/8 s and 1/4 s, the
\* frame is 10 mod 4.
C13_Witness ==
    /\ ev.op = "update" /\ inst.started
    /\ clock.exact /\ clock.t = 50
    /\ animations[current_animation_key].fps = 8
    /\ current_frame = 2

\* 6 fps, 4 frames: after five deltas of 0.1 s the frame timer is one f32
\* step short of the third frame period and the frame is still 2.
C13_FrameLags ==
    /\ ev.op = "update" /\ inst.started
    /\ clock.t = 20 /\ current_animation_time = One \div 2
    /\ animations[current_animation_key].fps = 6
    /\ current_frame = 2
    /\ current_animation_loop_time < F32FrameDuration(6)


\* ---- C14
\* progress() is within [0, 1] in every reachable state of the effect
\* tracker, and is 1 whenever current_effect_duration is not positive.
C14_ProgressBounds ==
    LET p == progress(effects_state)
    IN  /\ p[2] > 0
        /\ 0 <= p[1] /\ p[1] <= p[2]
        /\ (effects_state.current_effect_duration <= 0 => p[1] = p[2])

\* An update left effect_time above a positive current_effect_duration: the
\* quotient is above 1 and progress clamps it.
C14_Witness ==
    /\ ev.op = "update"
    /\ effects_state.current_effect_duration > 0
    /\ effects_state.effect_time > effects_state.current_effect_duration
    /\ progress(effects_state) = <<1, 1>>


\* ---- C15
\* The fields of a sprite, without the observation of the playing instance.
Fields(s) == [s EXCEPT !.inst = NoInstance]

\* What a caller sees of a sprite: the current key, the frame, whether an
\* effect is active, and its progress.
Visible(s) ==
    <<get_current_animation_key(s), s.current_animation_key, s.current_frame,
      s.effects_state.is_active, progress(s.effects_state)>>

\* Sprites a and b show the same and hold the same fields.
SameSprite(a, b) == Visible(a) = Visible(b) /\ Fields(a) = Fields(b)

\* The sprite restored from the serialized form of the sprite.
Restored == deserialize(serialize(Self))

C16_EmptyQueuePlaysDefault ==
    animation_queue = <<>> => current_animation_key = default_animation_key

\* ---- C17
\* C17: next_in_queue removes exactly the front queue entry and sets the frame
\* index and the time counters of the playing instance
\* (current_animation_time, current_animation_loop_time, current_queue_time)
\* to zero.
C17_NextInQueueResetsCounters ==
    [][ev'.op = "next_in_queue" =>
          /\ animation_queue' = pop_front(animation_queue)
          /\ current_frame' = 0
          /\ current_animation_time' = 0
          /\ current_animation_loop_time' = 0
          /\ current_queue_time' = 0]_vars

\* ---- C18
\* C18: after next_in_queue on a queue with at least two entries the new
\* front entry is the animation that update advances and draw renders, and
\* its duration is measured from the skip.
C18_NextInQueuePlaysNewFront ==
    [][(ev'.op = "next_in_queue" /\ Len(animation_queue) >= 2) =>
          /\ current_animation_key' = Head(animation_queue')[1]
          /\ current_queue_time' = 0]_vars


\* ---- C19
\* C19: reset_queue empties the queue and sets current_frame and
\* current_animation_time to zero, and leaves playing_time, paused,
\* default_animation_key and the registered animations unchanged.
C19_ResetQueueEffect ==
    [][ev'.op = "reset_queue" =>
          /\ animation_queue' = <<>>
          /\ current_frame' = 0
          /\ current_animation_time' = 0
          /\ UNCHANGED <<playing_time, paused, default_animation_key, animations>>]_vars

\* reset_queue has emptied the queue while a queued animation was playing,
\* some time into it.
C19_Witness ==
    /\ ev.op = "reset_queue"
    /\ animation_queue = <<>>
    /\ current_animation_key # default_animation_key
    /\ current_queue_time > 0
    /\ playing_time > 0
    /\ current_animation_time = 0

\* ---- C20
\* C20: set_frame(n) returns failure and changes nothing when the current
\* animation (queue front, else default) is not registered; otherwise it sets
\* current_frame to n mod total_frames of the current animation and changes no
\* other field.
C20_SetFrame ==
    [][ev'.op = "set_frame" =>
          IF has_current_animation(Self)
          THEN /\ ev'.ok
               /\ Fields(Self') =
                      [Fields(Self) EXCEPT !.current_frame =
                          ev'.arg % total_frames(get_current_animation(Self))]
          ELSE /\ ~ev'.ok
               /\ Fields(Self') = Fields(Self)]_vars

\* set_frame(5) on a two-frame animation, some time into it: the frame is 1.
C20_Witness ==
    /\ ev.op = "set_frame" /\ ev.ok /\ ev.arg = 5
    /\ has_current_animation(Self)
    /\ total_frames(get_current_animation(Self)) = 2
    /\ current_frame = 1
    /\ current_animation_time > 0

\* set_frame failed: the default animation was deleted and the queue is empty.
C20_FailureWitness ==
    /\ ev.op = "set_frame" /\ ~ev.ok
    /\ animation_queue = <<>>
    /\ ~contains_key(Self, default_animation_key)


\* ---- C21
\* The queue has drained to the default animation, which is
\* Animation::empty(), and only updates followed.
DrainedToEmpty ==
    /\ ev.op = "update" /\ ~ev.panic
    /\ inst.started /\ inst.clean
    /\ animation_queue = <<>>
    /\ current_animation_key = default_animation_key
    /\ previous_animation_key = "attack"
    /\ contains_key(Self, default_animation_key)
    /\ animations[default_animation_key] = Animation_empty

\* C21: with Animation::empty() as the default animation, once the queue has
\* drained to the default, get_current_frame_rect returns None after any
\* number of further ticks.
C21_EmptyDefaultHasNoRect == DrainedToEmpty => ~get_current_frame_rect(Self).some

\* ---- C22
\* The animation update advances and draw renders has fps == 0 or no frames.
Degenerate(s) ==
    /\ contains_key(s, s.current_animation_key)
    /\ \/ s.animations[s.current_animation_key].fps = 0
       \/ total_frames(s.animations[s.current_animation_key]) = 0

\* C22: while the current animation has fps == 0 or zero total frames, no
\* tick (that stays in the animation) changes current_frame, for any delta,
\* and the draw operation issues no draw call.
C22_DegenerateNeverAdvances ==
    [][/\ (ev'.op = "update" /\ Degenerate(Self) /\ ~ev'.switched) =>
              (~ev'.panic /\ current_frame' = current_frame)
       /\ (ev'.op = "draw_animation_ex" /\ Degenerate(Self)) =>
              (~ev'.panic /\ draw_animation_ex(Self).draws = 0)]_vars

\* ---- C23
\* C23: no public operation panics in any reachable state for any input.
C23_NoPanic == ~ev.panic


\* ---- C24
\* The queue entry that is playing names an animation that was deleted.
Dangling ==
    /\ animation_queue # <<>>
    /\ current_animation_key = Head(animation_queue)[1]
    /\ ~contains_key(Self, current_animation_key)

\* C24: after delete_animation of the key of the queue entry that is playing,
\* get_current_frame_rect returns None, and under continued unpaused ticks
\* with positive delta the sprite eventually pops that entry and starts the
\* next entry or the default, also when the deleted animation's effect was
\* active at the moment of deletion.
C24_DanglingEntryIsPopped ==
    /\ [](Dangling => ~get_current_frame_rect(Self).some)
    /\ Dangling ~> ~Dangling

\* The entry of a deleted animation whose effect was active when it was
\* deleted is still the front of the queue, its effect still active, after
\* the queue timer has passed its duration.
C24_StuckBehindActiveEffect ==
    /\ ev.op = "update"
    /\ Dangling
    /\ effects_state.is_active
    /\ current_queue_time > Head(animation_queue)[2]


\* ---- C25
\* The step performs a start-transition: the switch of an update, an enqueue
\* into an empty queue, or set_default_animation on an empty queue.
StartTransitionStep ==
    \/ ev'.op = "update" /\ ev'.switched
    \/ ev'.op = "add_animation_to_queue" /\ ev'.ok /\ animation_queue = <<>>
    \/ ev'.op = "set_default_animation" /\ ev'.ok /\ animation_queue = <<>>

\* C25: between two consecutive start-transitions is_active goes from false
\* to true at most once, the activation made by the start-transition
\* included, and once has_played is true is_active stays false until the next
\* start-transition.
C25_EffectPlaysOnce ==
    /\ [](inst.activations <= 1)
    /\ [](effects_state.has_played => ~effects_state.is_active)
    /\ [][(effects_state.has_played /\ ~StartTransitionStep) =>
              (effects_state'.has_played /\ ~effects_state'.is_active)]_vars

\* An End effect was activated by a tick and has completed, and a call other
\* than update and enqueue followed, and a tick after it.
C25_Witness ==
    /\ ev.op = "update"
    /\ inst.started /\ ~inst.clean /\ inst.activations = 1
    /\ calls > 0
    /\ effects_state.has_played /\ ~effects_state.is_active
    /\ effects_state.effect_start_time > 0


\* ---- C26
\* The playing instance is a queue entry with an End(d) effect, started with a
\* duration D >= d and only ticked since, and the tick of the scenario
\* divides D - d and d.
AlignedEndInstance(s) ==
    /\ EndInstance(s)
    /\ s.animations[s.current_animation_key].effect.duration <= s.inst.duration
    /\ s.animations[s.current_animation_key].effect.duration % ScenarioDelta = 0
    /\ (s.inst.duration - s.animations[s.current_animation_key].effect.duration)
           % ScenarioDelta = 0

\* C26: the tracker of such an instance is inactive at the start, active on
\* exactly the ticks whose elapsed time lies in [D - d, D), and first inactive
\* with has_played set on the tick at which the elapsed time reaches D.
C26_EndWindow ==
    /\ (ev.op = "add_animation_to_queue" /\ AlignedEndInstance(Self)) =>
           (~effects_state.is_active /\ ~effects_state.has_played)
    /\ (Ticked /\ AlignedEndInstance(AtCheck)) =>
           LET D == AtCheck.inst.duration
               d == AtCheck.animations[AtCheck.current_animation_key].effect.duration
               elapsed == AtCheck.current_animation_time
               es == AtCheck.effects_state
           IN  /\ es.is_active <=> (elapsed >= D - d /\ elapsed < D)
               /\ es.has_played <=> elapsed >= D

\* The tick before the one that ends the playback window of an End effect
\* shorter than the window: the effect has completed and the animation is
\* still the current one.
C26_EndsOneTickEarly ==
    /\ Ticked /\ AlignedEndInstance(AtCheck) /\ ~ev.switched
    /\ AtCheck.current_animation_time = AtCheck.inst.duration - ScenarioDelta
    /\ AtCheck.effects_state.has_played /\ ~AtCheck.effects_state.is_active
    /\ current_animation_key = "attack"


\* ---- C27
\* The playing instance has a Start effect, was started by a start-transition
\* and has only been ticked since.
StartInstance(s) ==
    /\ s.inst.started /\ s.inst.clean
    /\ contains_key(s, s.current_animation_key)
    /\ s.animations[s.current_animation_key].effect.target = "Start"

\* The last call performed a start-transition.
JustStarted == inst.started /\ inst.clean /\ (ev.op # "update" \/ ev.switched)

\* C27: right after a start-transition into an animation with a Start(d)
\* effect and instance duration D the tracker is active with effect_time = 0
\* and effect_start_time = 0; under ticks it is active exactly while the
\* elapsed time is < min(d, D), and inactive with has_played set from the
\* first tick at which the elapsed time is >= min(d, D).
C27_StartEffectWindow ==
    /\ (JustStarted /\ StartInstance(Self)) =>
           /\ effects_state.is_active /\ ~effects_state.has_played
           /\ effects_state.effect_time = 0
           /\ effects_state.effect_start_time = 0
    /\ (Ticked /\ StartInstance(AtCheck)) =>
           LET window == Min(AtCheck.animations[AtCheck.current_animation_key].effect.duration,
                             AtCheck.inst.duration)
               elapsed == AtCheck.current_animation_time
               es == AtCheck.effects_state
           IN  /\ es.is_active <=> elapsed < window
               /\ es.has_played <=> elapsed >= window
               /\ es.is_active => es.effect_time = elapsed

\* The Start effect of a queue entry shorter than the effect completed on the
\* tick at which the elapsed time reached the entry's duration.
C27_Witness ==
    /\ Ticked /\ StartInstance(AtCheck)
    /\ AtCheck.inst.duration < AtCheck.animations[AtCheck.current_animation_key].effect.duration
    /\ AtCheck.current_animation_time = AtCheck.inst.duration
    /\ AtCheck.effects_state.has_played /\ ~AtCheck.effects_state.is_active

\* ---- C28
\* The key a start-transition of this step starts: the argument of the
\* enqueue or of set_default_animation, or for the switch of an update the
\* second queue entry, else the default.
StartedKey ==
    IF ev'.op = "update"
    THEN IF Len(animation_queue) >= 2 THEN animation_queue[2][1] ELSE default_animation_key
    ELSE ev'.key

\* C28: immediately after every start-transition current_frame = 0, the three
\* timers of the instance and effect_time are 0, has_played is false,
\* current_animation_key is the new key and previous_animation_key the key
\* that was current just before.
C28_StartTransitionPostcondition ==
    [][StartTransitionStep =>
          /\ current_frame' = 0
          /\ current_animation_loop_time' = 0
          /\ current_animation_time' = 0
          /\ current_queue_time' = 0
          /\ effects_state'.effect_time = 0
          /\ ~effects_state'.has_played
          /\ current_animation_key' = StartedKey
          /\ previous_animation_key' = current_animation_key]_vars

\* An update switched from one queue entry to the next one, of another key,
\* with the frame and the frame timer of the old entry not zero.
C28_Witness ==
    /\ ev.op = "update" /\ ev.switched
    /\ animation_queue # <<>>
    /\ current_animation_key = Head(animation_queue)[1]
    /\ previous_animation_key = AtCheck.current_animation_key
    /\ previous_animation_key # current_animation_key
    /\ AtCheck.current_frame > 0
    /\ AtCheck.current_animation_time > 0
    /\ current_frame = 0 /\ current_animation_time = 0


\* ---- C29
\* C29: in every reachable state in which the current animation resolves and
\* has total_frames > 0, current_frame < total_frames(current animation).
C29_FrameIndexInRange ==
    (has_current_animation(Self) /\ total_frames(get_current_animation(Self)) > 0)
        => current_frame < total_frames(get_current_animation(Self))

C30_NegativeDuration ==
    /\ inst.started /\ inst.duration < 0
    /\ effects_state.current_effect_duration = 0


\* ------------------------------------------------------------------- C31

\* The sprite s plays, with the unbounded duration and with nothing but
\* update called since it began, an animation that carries an End effect.
UnboundedEndInstance(s) ==
    /\ s.inst.started
    /\ s.inst.clean
    /\ s.inst.duration = F32_MAX
    /\ contains_key(s, s.current_animation_key)
    /\ s.animations[s.current_animation_key].effect.target = "End"

\* C31: an animation with an End(d) effect that became current with the
\* unbounded duration (the default after the queue drained, or
\* set_default_animation with an empty queue) never has its effect active,
\* however many updates follow: the tracker is never activated and never
\* completes, and the update's switch test never finds it active; an enqueue
\* that follows is not held back: it starts the enqueued animation at once.
C31_UnboundedEndEffectNeverActive ==
    [][ /\ UnboundedEndInstance(Self') =>
            /\ ~effects_state'.is_active
            /\ ~effects_state'.has_played
            /\ inst'.activations = 0
            /\ effects_state'.effect_start_time >= F32_MAX
        /\ (UnboundedEndInstance(Self) /\ ev'.op = "update") =>
            ~ev'.checked.effects_state.is_active
        /\ (UnboundedEndInstance(Self) /\ ev'.op = "add_animation_to_queue" /\ ev'.ok) =>
            /\ current_animation_key' = ev'.key
            /\ inst'.started /\ inst'.duration = ev'.arg
            /\ current_animation_time' = 0 ]_vars

\* Such an instance has been ticked past the duration of its End effect.
C31_Witness ==
    /\ UnboundedEndInstance(Self)
    /\ ev.op = "update"
    /\ animation_queue = <<>>
    /\ current_animation_time > animations[current_animation_key].effect.duration
    /\ ~effects_state.is_active

\* An enqueue has just replaced such an instance.
C31_EnqueueWitness ==
    /\ ev.op = "add_animation_to_queue" /\ ev.ok
    /\ previous_animation_key # None
    /\ contains_key(Self, previous_animation_key)
    /\ animations[previous_animation_key].effect.target = "End"
    /\ Len(animation_queue) = 1


\* ------------------------------------------------------------------- C32

\* C32: playing_time is the sum of the deltas of the updates that found the
\* sprite not paused, since construction or since the last reset(); only
\* reset() decreases it: reset_queue, next_in_queue, clear_queue, an enqueue,
\* set_default_animation and the switch of update leave it as it is or, for
\* the update, add its delta.
C32_PlayingTimeIsLifetimeSum ==
    [][ /\ playing_time' = clock'.t
        /\ playing_time' < playing_time => ev'.op = "reset"
        /\ ev'.op = "reset" => playing_time' = 0
        /\ ev'.op \notin {"reset", "update"} => playing_time' = playing_time
        /\ (ev'.op = "update" /\ paused) => playing_time' = playing_time
        /\ (ev'.op = "update" /\ ~paused) =>
               playing_time' - playing_time \in Deltas ]_vars

\* After a reset() the sprite was ticked again: the lifetime timer is behind
\* the queue timer, which reset() leaves alone.
C32_Witness ==
    /\ ev.op = "update"
    /\ calls = 1
    /\ playing_time > 0
    /\ playing_time = clock.t
    /\ playing_time < MaxTime
    /\ ev.checked.current_queue_time > playing_time


\* ------------------------------------------------------------------- C33

\* C33: the key get_current_animation_key reports (the key of the queue
\* front, else the default key) is the current_animation_key that update
\* advances and draw renders, in every reachable state.
C33_ReportedKeyIsInternalKey ==
    get_current_animation_key(Self) = current_animation_key


\* ------------------------------------------------------------------- C34

\* The duration of the instance the sprite s plays: the one its
\* start-transition was given, and the unbounded one for the default
\* animation of a sprite no start-transition has touched.
InstanceDuration(s) == IF s.inst.started THEN s.inst.duration ELSE F32_MAX

\* The sprite is as AnimatedSprite::new and register_animation left it, and
\* its default animation has a Start effect.
FreshWithStartEffect ==
    /\ ev.op = "new"
    /\ animations[default_animation_key].effect.target = "Start"
    /\ animations[default_animation_key].effect.duration > 0

\* C34: whenever the tracker is active while the current animation has an
\* effect of duration d, current_effect_duration is min(d, duration of the
\* instance); and on a freshly constructed sprite whose default animation has
\* a Start(d) effect, d > 0, the effect is active for d of ticking: after an
\* update with a delta below d it is active with d as its duration.
C34_EffectDurationNeverStale ==
    [][ /\ ( /\ effects_state'.is_active
             /\ contains_key(Self', current_animation_key')
             /\ animations'[current_animation_key'].effect.target # "None" ) =>
            effects_state'.current_effect_duration =
                Min(animations'[current_animation_key'].effect.duration,
                    InstanceDuration(Self'))
        /\ ( /\ FreshWithStartEffect
             /\ ev'.op = "update"
             /\ playing_time' < animations[default_animation_key].effect.duration ) =>
            /\ effects_state'.is_active
            /\ effects_state'.current_effect_duration =
                   animations[default_animation_key].effect.duration ]_vars


\* ------------------------------------------------------------------- C35

\* C35: add_animation_to_queue into an empty queue and set_default_animation
\* with an empty queue do not cut off an effect in flight: when the tracker
\* is active at the call, the call leaves the current animation and the
\* running effect as they are, so that the effect can reach has_played
\* before the animation changes.
C35_CallKeepsEffectInFlight ==
    [][ ( /\ effects_state.is_active
          /\ animation_queue = <<>>
          /\ ev'.op \in {"add_animation_to_queue", "set_default_animation"}
          /\ ev'.ok ) =>
            /\ current_animation_key' = current_animation_key
            /\ effects_state'.is_active
            /\ effects_state'.effect_time = effects_state.effect_time
            /\ effects_state'.current_effect_duration =
                   effects_state.current_effect_duration ]_vars


\* ------------------------------------------------------------------- C36

\* C36: one update pops at most one queue entry and makes at most one
\* start-transition, whatever its delta: without the switch the queue is as
\* it was; with it exactly the front is gone, the animation that starts is
\* the new front (or the default), the animation it follows is the one that
\* was playing, and the queue timer restarts at 0, so that time beyond the
\* popped entry's duration is not counted for the next entry.
C36_OneSwitchPerUpdate ==
    [][ ev'.op = "update" =>
          /\ Len(animation_queue') >= Len(animation_queue) - 1
          /\ ~ev'.switched => animation_queue' = animation_queue
          /\ ev'.switched =>
                /\ animation_queue # <<>>
                /\ animation_queue' = Tail(animation_queue)
                /\ current_queue_time' = 0
                /\ current_animation_time' = 0
                /\ previous_animation_key' = current_animation_key
                /\ current_animation_key' = get_current_animation_key(Self')
                /\ inst'.started /\ inst'.clean
                /\ inst'.duration =
                       (IF animation_queue' = <<>> THEN F32_MAX
                        ELSE Head(animation_queue')[2]) ]_vars

\* An update whose delta took the queue timer beyond the durations of the
\* front and of the entry behind it together has popped the front only.
C36_Witness ==
    /\ ev.op = "update" /\ ev.switched
    /\ Len(ev.checked.animation_queue) = 2
    /\ ev.checked.current_queue_time >=
           ev.checked.animation_queue[1][2] + ev.checked.animation_queue[2][2]
    /\ animation_queue = Tail(ev.checked.animation_queue)
    /\ current_queue_time = 0


\* ------------------------------------------------------------------- C37

\* C37: the flags of the effect tracker exclude each other: in no reachable
\* state are is_active and has_played both true.
C37_FlagsExclusive == ~(effects_state.is_active /\ effects_state.has_played)

\* An effect has been activated by update and has completed.
C37_Witness ==
    /\ effects_state.has_played
    /\ ~effects_state.is_active
    /\ inst.started /\ inst.activations = 1
    /\ effects_state.effect_time >= effects_state.current_effect_duration
    /\ effects_state.current_effect_duration > 0

====
